---- MODULE Spec2Model ----
(***************************************************************************)
(* Model of the three command-line programs of rust-image-processor's      *)
(* python tree:                                                            *)
(*   py_jpeg_converter/main.py      process_jpeg_files (full-quality       *)
(*                                  re-encode, mirrors the input tree)     *)
(*   scripts/jpeg_compressor/main.py  main + compress_jpeg                 *)
(*   scripts/jpeg_counter/main.py     main (duplicate base-name audit)     *)
(*                                                                         *)
(* A file name is a sequence of one-character strings, a path a sequence   *)
(* of names.  Paths are relative to the directory of the running module    *)
(* (project_dir / module_dir), which is the empty path <<>>.               *)
(***************************************************************************)
EXTENDS Naturals, Sequences, FiniteSets

\* ------------------------------------------------------------------ bounds
\* Largest number of regular files in an input tree given to a transcoder.
MaxFiles == 2
\* Largest number of regular files in an input tree given to the audit.
MaxAuditFiles == 6

\* ------------------------------------------------------------- names, paths
nIn == <<"i", "n">>
nOutput == <<"o", "u", "t", "p", "u", "t">>
nFixed == <<"f", "i", "x", "e", "d">>
nFixed2 == <<"f", "i", "x", "e", "d", "2">>
nCompressed == <<"c", "o", "m", "p">>
nStamp == <<"t", "_", "i", "n", "_", "9", "0">>
nOld == <<"o", "l", "d">>
nD == <<"d">>
nE == <<"e">>
nXjpg == <<"x", ".", "j", "p", "g">>
nAjpg == <<"a", ".", "j", "p", "g">>
nAJPG == <<"a", ".", "J", "P", "G">>
nAjpeg == <<"a", ".", "j", "p", "e", "g">>
nBJpeg == <<"b", ".", "J", "p", "e", "g">>
nBjpg == <<"b", ".", "j", "p", "g">>
nNpng == <<"n", ".", "p", "n", "g">>
nDotjpg == <<".", "j", "p", "g">>

\* str.lower() on the characters that occur
LowerChar(c) ==
  CASE c = "J" -> "j"
    [] c = "P" -> "p"
    [] c = "E" -> "e"
    [] c = "G" -> "g"
    [] c = "Y" -> "y"
    [] c = "N" -> "n"
    [] OTHER -> c

Lower(s) == [i \in 1..Len(s) |-> LowerChar(s[i])]

\* str.rfind("."), 1-based, 0 when there is no dot
RFindDot(name) ==
  LET hits == {i \in 1..Len(name) : name[i] = "."}
  IN IF hits = {} THEN 0 ELSE CHOOSE i \in hits : \A j \in hits : j <= i

\* PurePath.suffix of the last component
Suffix(name) ==
  LET i == RFindDot(name)
  IN IF 1 < i /\ i < Len(name) THEN SubSeq(name, i, Len(name)) ELSE <<>>

\* PurePath.stem of the last component
Stem(name) ==
  LET i == RFindDot(name)
  IN IF 1 < i /\ i < Len(name) THEN SubSeq(name, 1, i - 1) ELSE name

Name(path) == path[Len(path)]

Parent(path) == SubSeq(path, 1, Len(path) - 1)

IsPrefix(base, path) ==
  Len(base) <= Len(path) /\ SubSeq(path, 1, Len(base)) = base

\* PurePath.relative_to(base); the callers only pass paths under base
RelativeTo(path, base) == SubSeq(path, Len(base) + 1, Len(path))

\* every ancestor of path and path itself: what mkdir(parents=True) ensures
Prefixes(path) == {SubSeq(path, 1, k) : k \in 0..Len(path)}

JpegSuffixes == {<<".", "j", "p", "g">>, <<".", "j", "p", "e", "g">>}

\* variant: any file with an extension is taken for a JPEG
IsJpegNameAnySuffix(path) == Suffix(Name(path)) # <<>>

\* file_path.suffix.lower() in (".jpg", ".jpeg")
IsJpegName(path) == Lower(Suffix(Name(path))) \in JpegSuffixes

\* ------------------------------------------------------- configured paths
INPUT_DIR == <<nIn>>
OUTPUT_DIR == <<nOutput, nFixed>>
\* the second, fresh output root of a repeated conversion
OUTPUT_DIR_2 == <<nOutput, nFixed2>>
\* module_dir / "output" / "compressed" / f"{datetime_str}_{input_dirname}_{quality}"
CompressedDir == <<nOutput, nCompressed, nStamp>>

\* ------------------------------------------------------------------ state
VARIABLES
  prog,         \* which program runs: "convert", "compress" or "count"
  inputKind,    \* what the input path is: "missing", "file" or "dir"
  tree,         \* the entries under the input root: [path, kind, content]
  keepsPartial, \* whether the installed codec leaves the file of a failed save
  dirs,         \* directories that exist on the output side
  files,        \* regular files that exist on the output side
  pc,           \* position of the running program
  run,          \* 1, or 2 for the repeated conversion
  pending,      \* entries of the glob tuple the loop has not reached yet
  cur,          \* the in-scope entry whose codec call is next
  iterations,   \* how many times the loop body has started
  log,          \* log records written: [path, level, kind]
  img,          \* the converter's local variable img: source path of the image
  handles,      \* source paths with an open file handle
  prompted,     \* whether input() has been called
  answer,       \* what input() returned
  jpeg_files,   \* the audit's list jpeg_files
  report        \* what the audit printed

vars ==
  <<prog, inputKind, tree, keepsPartial, dirs, files, pc, run, pending, cur,
    iterations, log, img, handles, prompted, answer, jpeg_files, report>>

NoPath == <<>>

NoEntry == [path |-> NoPath, kind |-> "none", content |-> "none"]

NoReport == [total |-> 0, unique |-> 0, duplicated |-> 0, duplicates |-> <<>>]

\* ------------------------------------------------------------ input trees
DirCands == {<<nD>>, <<nD, nE>>, <<nXjpg>>}

TranscodeFileCands ==
  {<<nAjpg>>, <<nDotjpg>>, <<nD, nAJPG>>, <<nD, nNpng>>, <<nD, nE, nBJpeg>>}

AuditFileCands ==
  {<<nAjpg>>, <<nAjpeg>>, <<nBjpg>>, <<nD, nAJPG>>, <<nD, nBJpeg>>, <<nD, nNpng>>,
   <<nD, nE, nBjpg>>}

\* what a file named like a JPEG may hold: a JPEG, bytes no decoder
\* recognises, a JPEG cut short (recognised, fails while decoding), an image
\* whose mode the JPEG encoder refuses (fails while encoding)
Contents == {"jpeg", "garbage", "truncated", "rgba"}

DirSets == {ds \in SUBSET DirCands : \A d \in ds : Len(d) > 1 => Parent(d) \in ds}

FileSets(ds, cands, max) ==
  {fs \in SUBSET cands :
     /\ Cardinality(fs) <= max
     /\ \A f \in fs : Len(f) > 1 => Parent(f) \in ds}

ContentChoices(p, fs) ==
  {c \in [fs -> Contents \cup {"other"}] :
     \A f \in fs :
       IF p # "count" /\ IsJpegName(f) THEN c[f] \in Contents ELSE c[f] = "other"}

Trees(p) ==
  LET cands == IF p = "count" THEN AuditFileCands ELSE TranscodeFileCands
      max == IF p = "count" THEN MaxAuditFiles ELSE MaxFiles
  IN UNION {UNION {
       { {[path |-> INPUT_DIR \o d, kind |-> "dir", content |-> "none"] : d \in ds}
           \cup {[path |-> INPUT_DIR \o f, kind |-> "file", content |-> c[f]] : f \in fs}
         : c \in ContentChoices(p, fs) }
       : fs \in FileSets(ds, cands, max)} : ds \in DirSets}

\* the output root the running program writes under
OutputRoot(p, r) ==
  IF p = "convert" THEN (IF r = 1 THEN OUTPUT_DIR ELSE OUTPUT_DIR_2) ELSE CompressedDir

\* Path.mkdir(parents=True, exist_ok=True); in the file systems modelled no
\* regular file is in the way of a directory, so it never raises
Mkdir(ds, path) == ds \cup Prefixes(path)

\* input_path.glob("**/*") / rglob("*"): every entry below a directory, none
\* below a regular file
Glob == IF inputKind = "dir" THEN tree ELSE {}

Init ==
  /\ prog \in {"convert", "compress", "count"}
  /\ inputKind \in {"missing", "file", "dir"}
  /\ tree \in (IF inputKind = "dir" THEN Trees(prog) ELSE {{}})
  /\ keepsPartial \in (IF \E e \in tree : e.content = "rgba" THEN BOOLEAN ELSE {FALSE})
  /\ \E stale \in (IF prog = "count" THEN {FALSE} ELSE BOOLEAN) :
       dirs = IF stale
              THEN Mkdir({NoPath}, OutputRoot(prog, 1) \o <<nOld>>)
              ELSE {NoPath}
  /\ files = {}
  /\ pc = "start"
  /\ run = 1
  /\ pending = {}
  /\ cur = NoEntry
  /\ iterations = 0
  /\ log = {}
  /\ img = NoPath
  /\ handles = {}
  /\ prompted = FALSE
  /\ answer = <<>>
  /\ jpeg_files = <<>>
  /\ report = NoReport

\* ---------------------------------------------- py_jpeg_converter/main.py
output_path == OutputRoot(prog, run)

\* variant: the output file is named after the source file alone
OutputFileFlat(e) == output_path \o <<Name(e.path)>>

\* output_path / file_path.relative_to(input_path)
OutputFile(e) == output_path \o RelativeTo(e.path, INPUT_DIR)

LogRec(path, level, kind) == [path |-> path, level |-> level, kind |-> kind]

\* Image.open(file_path) followed by img.save(output file of e, "JPEG", ...)
\* goes through: the content decodes and encodes, and the output file can be
\* opened for writing
SaveSucceeds(e) == e.content = "jpeg" /\ Parent(OutputFile(e)) \in dirs

\* the output-side files after open and save of entry e: the decoder runs
\* before the output file is opened, the encoder after it
AfterSave(e) ==
  CASE e.content \in {"garbage", "truncated"} -> files
    [] Parent(OutputFile(e)) \notin dirs -> files
    [] e.content = "rgba" -> IF keepsPartial THEN files \cup {OutputFile(e)} ELSE files
    [] OTHER -> files \cup {OutputFile(e)}

\* process_jpeg_files up to the loop: the existence check, the output root,
\* the glob
ConvStart ==
  /\ prog = "convert" /\ pc = "start"
  /\ IF inputKind = "missing"
     THEN /\ pc' = "aborted"
          /\ UNCHANGED <<dirs, pending>>
     ELSE /\ dirs' = Mkdir(dirs, output_path)
          /\ pending' = Glob
          /\ pc' = "loop"
  /\ UNCHANGED <<prog, inputKind, tree, keepsPartial, files, run, cur, iterations,
                 log, img, handles, prompted, answer, jpeg_files, report>>

\* the directory to create for a directory entry
ConvDirTarget(e) == OutputFile(e)

\* loop body, a directory entry: mirror it
ConvDir(e) ==
  /\ prog = "convert" /\ pc = "loop" /\ e \in pending
  /\ e.kind = "dir"
  /\ dirs' = Mkdir(dirs, ConvDirTarget(e))
  /\ pending' = pending \ {e}
  /\ iterations' = iterations + 1
  /\ UNCHANGED <<prog, inputKind, tree, keepsPartial, files, pc, run, cur, log,
                 img, handles, prompted, answer, jpeg_files, report>>

\* loop body, a file that is not named like a JPEG: log and go on
ConvSkip(e) ==
  /\ prog = "convert" /\ pc = "loop" /\ e \in pending
  /\ e.kind = "file" /\ ~IsJpegName(e.path)
  /\ log' = log \cup {LogRec(e.path, "info", "skip")}
  /\ pending' = pending \ {e}
  /\ iterations' = iterations + 1
  /\ UNCHANGED <<prog, inputKind, tree, keepsPartial, dirs, files, pc, run, cur,
                 img, handles, prompted, answer, jpeg_files, report>>

\* variant: the converter relies on the directory entries alone
ConvParentDirsNone(e) == dirs

\* the directories the converter ensures before it opens an in-scope file
ConvParentDirs(e) == Mkdir(dirs, Parent(OutputFile(e)))

\* loop body, a file named like a JPEG, up to the try block
ConvPrepare(e) ==
  /\ prog = "convert" /\ pc = "loop" /\ e \in pending
  /\ e.kind = "file" /\ IsJpegName(e.path)
  /\ dirs' = ConvParentDirs(e)
  /\ pending' = pending \ {e}
  /\ iterations' = iterations + 1
  /\ cur' = e
  /\ pc' = "codec"
  /\ UNCHANGED <<prog, inputKind, tree, keepsPartial, files, run, log, img,
                 handles, prompted, answer, jpeg_files, report>>

\* the source handles open once the converter's try statement is over.  img is
\* never closed: Image.open closes its file itself when it cannot identify the
\* content, a complete decode closes it, a decode that fails leaves it open, and
\* rebinding img drops the image bound before (reference counting closes it)
ConvHandlesAfter(e) ==
  CASE e.content = "garbage" -> handles
    [] e.content = "truncated" -> (handles \ {img}) \cup {e.path}
    [] OTHER -> handles \ {img}

\* variant: only UnidentifiedImageError is caught, any other exception leaves
\* the function
ConvAfterTryNarrow(e) ==
  IF e.content \in {"truncated", "rgba"} THEN "aborted" ELSE "loop"

\* where control goes after the try statement: the two except clauses catch
\* UnidentifiedImageError and every other Exception, so always on to the loop
ConvAfterTry(e) == "loop"

\* the try statement: Image.open, img.save, the two except clauses
ConvCodec ==
  /\ prog = "convert" /\ pc = "codec"
  /\ files' = AfterSave(cur)
  /\ log' = log \cup
       (CASE SaveSucceeds(cur) ->
               {LogRec(cur.path, "info", "detected"), LogRec(cur.path, "info", "saved")}
          [] cur.content = "garbage" -> {LogRec(cur.path, "error", "unidentified")}
          [] OTHER ->
               {LogRec(cur.path, "info", "detected"), LogRec(cur.path, "error", "failed")})
  /\ img' = IF cur.content = "garbage" THEN img ELSE cur.path
  /\ handles' = ConvHandlesAfter(cur)
  /\ cur' = NoEntry
  /\ pc' = ConvAfterTry(cur)
  /\ UNCHANGED <<prog, inputKind, tree, keepsPartial, dirs, run, pending,
                 iterations, prompted, answer, jpeg_files, report>>

\* the loop is exhausted: process_jpeg_files returns, its locals are dropped
ConvDone ==
  /\ prog = "convert" /\ pc = "loop" /\ pending = {}
  /\ pc' = "done"
  /\ img' = NoPath
  /\ handles' = {}
  /\ UNCHANGED <<prog, inputKind, tree, keepsPartial, dirs, files, run, pending,
                 cur, iterations, log, prompted, answer, jpeg_files, report>>

\* the conversion started again on the unchanged input with OUTPUT_DIR set to
\* a second, fresh directory
ConvAgain ==
  /\ prog = "convert" /\ pc = "done" /\ run = 1
  /\ run' = 2
  /\ pc' = "start"
  /\ iterations' = 0
  /\ log' = {}
  /\ UNCHANGED <<prog, inputKind, tree, keepsPartial, dirs, files, pending, cur,
                 img, handles, prompted, answer, jpeg_files, report>>

\* ------------------------------------------- scripts/jpeg_compressor/main.py
\* what the user may type at the prompt
Answers == {<<"y">>, <<"Y">>, <<"n">>, <<>>, <<"y", "e", "s">>}

\* main, first gate: the input path must exist
CompMainInput ==
  /\ prog = "compress" /\ pc = "start"
  /\ IF inputKind = "missing"
     THEN /\ log' = log \cup {LogRec(INPUT_DIR, "error", "input-missing")}
          /\ pc' = "returned"
     ELSE /\ pc' = "checkOutput"
          /\ UNCHANGED log
  /\ UNCHANGED <<prog, inputKind, tree, keepsPartial, dirs, files, run, pending,
                 cur, iterations, img, handles, prompted, answer, jpeg_files, report>>

\* main, second gate: the computed output directory must not exist
CompMainOutput ==
  /\ prog = "compress" /\ pc = "checkOutput"
  /\ IF output_path \in dirs \cup files
     THEN /\ log' = log \cup {LogRec(output_path, "warning", "output-exists")}
          /\ pc' = "returned"
     ELSE /\ pc' = "confirm"
          /\ UNCHANGED log
  /\ UNCHANGED <<prog, inputKind, tree, keepsPartial, dirs, files, run, pending,
                 cur, iterations, img, handles, prompted, answer, jpeg_files, report>>

\* variant: only the answer n cancels
DeclinedOnlyOnN(a) == Lower(a) = <<"n">>

\* input(...).lower() != "y"
Declined(a) == Lower(a) # <<"y">>

\* main, third gate: the confirmation prompt
CompMainConfirm ==
  /\ prog = "compress" /\ pc = "confirm"
  /\ \E a \in Answers :
       /\ answer' = a
       /\ prompted' = TRUE
       /\ IF Declined(a)
          THEN /\ log' = log \cup {LogRec(INPUT_DIR, "info", "cancelled")}
               /\ pc' = "returned"
          ELSE /\ pc' = "compress"
               /\ UNCHANGED log
  /\ UNCHANGED <<prog, inputKind, tree, keepsPartial, dirs, files, run, pending,
                 cur, iterations, img, handles, jpeg_files, report>>

\* compress_jpeg up to the loop: the output root, the glob
CompStart ==
  /\ prog = "compress" /\ pc = "compress"
  /\ dirs' = Mkdir(dirs, output_path)
  /\ pending' = Glob
  /\ pc' = "loop"
  /\ UNCHANGED <<prog, inputKind, tree, keepsPartial, files, run, cur, iterations,
                 log, img, handles, prompted, answer, jpeg_files, report>>

\* the directories that exist once the compressor has met a directory entry
CompDirDirs(e) == dirs

\* loop body, a directory entry: logged and skipped
CompDir(e) ==
  /\ prog = "compress" /\ pc = "loop" /\ e \in pending
  /\ e.kind = "dir"
  /\ dirs' = CompDirDirs(e)
  /\ log' = log \cup {LogRec(e.path, "info", "directory")}
  /\ pending' = pending \ {e}
  /\ iterations' = iterations + 1
  /\ UNCHANGED <<prog, inputKind, tree, keepsPartial, files, pc, run, cur, img,
                 handles, prompted, answer, jpeg_files, report>>

\* variant: the output directory is ensured after the extension check, so not
\* for a file that is skipped
CompSkipDirsNone(e) == dirs

\* the directories that exist once the compressor has skipped a file: its
\* output directory is ensured before the extension check
CompSkipDirs(e) == Mkdir(dirs, Parent(OutputFile(e)))

\* variant: no directory is ensured before the codec is called
CompParentDirsNone(e) == dirs

\* the directories the compressor ensures for every file entry
CompParentDirs(e) == Mkdir(dirs, Parent(OutputFile(e)))

\* loop body, a file that is not named like a JPEG: its output directory is
\* ensured first, then it is logged and skipped
CompSkip(e) ==
  /\ prog = "compress" /\ pc = "loop" /\ e \in pending
  /\ e.kind = "file" /\ ~IsJpegName(e.path)
  /\ dirs' = CompSkipDirs(e)
  /\ log' = log \cup {LogRec(e.path, "warning", "skip")}
  /\ pending' = pending \ {e}
  /\ iterations' = iterations + 1
  /\ UNCHANGED <<prog, inputKind, tree, keepsPartial, files, pc, run, cur, img,
                 handles, prompted, answer, jpeg_files, report>>

\* loop body, a file named like a JPEG, up to the try block
CompPrepare(e) ==
  /\ prog = "compress" /\ pc = "loop" /\ e \in pending
  /\ e.kind = "file" /\ IsJpegName(e.path)
  /\ dirs' = CompParentDirs(e)
  /\ pending' = pending \ {e}
  /\ iterations' = iterations + 1
  /\ cur' = e
  /\ pc' = "codec"
  /\ UNCHANGED <<prog, inputKind, tree, keepsPartial, files, run, log, img,
                 handles, prompted, answer, jpeg_files, report>>

\* the source handles open once the compressor's with statement is over: the
\* context manager closes the image on every way out
CompHandlesAfter(e) == handles \ {e.path}

\* where control goes after the try statement: except Exception catches all
CompAfterTry(e) == "loop"

\* the try statement: stat, with Image.open(...) as img: img.save(...), except
CompCodec ==
  /\ prog = "compress" /\ pc = "codec"
  /\ files' = AfterSave(cur)
  /\ log' = log \cup
       (IF SaveSucceeds(cur)
        THEN {LogRec(cur.path, "info", "compressed")}
        ELSE {LogRec(cur.path, "error", "failed")})
  /\ handles' = CompHandlesAfter(cur)
  /\ cur' = NoEntry
  /\ pc' = CompAfterTry(cur)
  /\ UNCHANGED <<prog, inputKind, tree, keepsPartial, dirs, run, pending,
                 iterations, img, prompted, answer, jpeg_files, report>>

\* the loop is exhausted: compress_jpeg returns to main, which returns
CompDone ==
  /\ prog = "compress" /\ pc = "loop" /\ pending = {}
  /\ pc' = "done"
  /\ UNCHANGED <<prog, inputKind, tree, keepsPartial, dirs, files, run, pending,
                 cur, iterations, log, img, handles, prompted, answer, jpeg_files,
                 report>>

\* ---------------------------------------------- scripts/jpeg_counter/main.py
\* Counter(f.stem for f in jpeg_files): the stems with their counts, in the
\* order in which each stem was first met (a dict keeps insertion order)
RECURSIVE CounterFrom(_, _, _)
CounterFrom(fs, i, acc) ==
  IF i > Len(fs) THEN acc
  ELSE LET stem == Stem(Name(fs[i]))
           at == {k \in 1..Len(acc) : acc[k].name = stem}
       IN IF at = {}
          THEN CounterFrom(fs, i + 1, Append(acc, [name |-> stem, count |-> 1]))
          ELSE CounterFrom(fs, i + 1,
                 [k \in 1..Len(acc) |->
                    IF k \in at THEN [acc[k] EXCEPT !.count = @ + 1] ELSE acc[k]])

filename_counter(fs) == CounterFrom(fs, 1, <<>>)

\* filename_paths[stem]: the paths with that stem, in list order
filename_paths(fs, stem) == SelectSeq(fs, LAMBDA f : Stem(Name(f)) = stem)

\* variant: a sort that puts an item before the items of equal count
InsertAtUnstable(sorted, x) ==
  LET smaller == {k \in 1..Len(sorted) : sorted[k].count <= x.count}
  IN IF smaller = {} THEN Len(sorted) + 1
     ELSE CHOOSE k \in smaller : \A j \in smaller : k <= j

\* where a stable sort by descending count puts item x in the sorted sequence
InsertAt(sorted, x) ==
  LET smaller == {k \in 1..Len(sorted) : sorted[k].count < x.count}
  IN IF smaller = {} THEN Len(sorted) + 1
     ELSE CHOOSE k \in smaller : \A j \in smaller : k <= j

RECURSIVE SortFrom(_, _, _)
SortFrom(items, i, sorted) ==
  IF i > Len(items) THEN sorted
  ELSE LET k == InsertAt(sorted, items[i])
       IN SortFrom(items, i + 1,
            SubSeq(sorted, 1, k - 1) \o <<items[i]>> \o SubSeq(sorted, k, Len(sorted)))

\* Counter.most_common(): sorted(items, key=count, reverse=True), a stable sort
most_common(counter) == SortFrom(counter, 1, <<>>)

\* the comprehension's filter on most_common()
IsDuplicate(item) == item.count > 1

duplicates(counter) == SelectSeq(most_common(counter), IsDuplicate)

\* f.is_file() and f.suffix.lower() in (".jpg", ".jpeg")
IsJpegFile(e) == e.kind = "file" /\ IsJpegName(e.path)

\* main up to the walk: the existence check, rglob
CountStart ==
  /\ prog = "count" /\ pc = "start"
  /\ IF inputKind = "missing"
     THEN /\ log' = log \cup {LogRec(INPUT_DIR, "error", "input-missing")}
          /\ pc' = "returned"
          /\ UNCHANGED pending
     ELSE /\ pending' = Glob
          /\ pc' = "scan"
          /\ UNCHANGED log
  /\ UNCHANGED <<prog, inputKind, tree, keepsPartial, dirs, files, run, cur,
                 iterations, img, handles, prompted, answer, jpeg_files, report>>

\* one element of the list comprehension over rglob("*")
CountScan(e) ==
  /\ prog = "count" /\ pc = "scan" /\ e \in pending
  /\ jpeg_files' = IF IsJpegFile(e) THEN Append(jpeg_files, e.path) ELSE jpeg_files
  /\ pending' = pending \ {e}
  /\ iterations' = iterations + 1
  /\ UNCHANGED <<prog, inputKind, tree, keepsPartial, dirs, files, pc, run, cur,
                 log, img, handles, prompted, answer, report>>

\* the rest of main: the counter, the path lists, the summary, the table
CountReport ==
  /\ prog = "count" /\ pc = "scan" /\ pending = {}
  /\ LET counter == filename_counter(jpeg_files)
         dups == duplicates(counter)
     IN report' =
          [total |-> Len(jpeg_files),
           unique |-> Len(counter),
           duplicated |-> Cardinality({k \in 1..Len(counter) : counter[k].count > 1}),
           duplicates |->
             [k \in 1..Len(dups) |->
                [name |-> dups[k].name,
                 count |-> dups[k].count,
                 paths |-> filename_paths(jpeg_files, dups[k].name)]]]
  /\ pc' = "done"
  /\ UNCHANGED <<prog, inputKind, tree, keepsPartial, dirs, files, run, pending,
                 cur, iterations, log, img, handles, prompted, answer, jpeg_files>>

Next ==
  \/ ConvStart
  \/ \E e \in pending : ConvDir(e)
  \/ \E e \in pending : ConvSkip(e)
  \/ \E e \in pending : ConvPrepare(e)
  \/ ConvCodec
  \/ ConvDone
  \/ ConvAgain
  \/ CompMainInput
  \/ CompMainOutput
  \/ CompMainConfirm
  \/ CompStart
  \/ \E e \in pending : CompDir(e)
  \/ \E e \in pending : CompSkip(e)
  \/ \E e \in pending : CompPrepare(e)
  \/ CompCodec
  \/ CompDone
  \/ CountStart
  \/ \E e \in pending : CountScan(e)
  \/ CountReport

Spec == Init /\ [][Next]_vars

\* ------------------------------------------------------------- properties
\* The names below state what is expected without using the operators that
\* model the code's own string handling.
JpegNamed == {nAjpg, nAJPG, nAjpeg, nBjpg, nBJpeg}

BaseName(n) == IF n \in {nAjpg, nAJPG, nAjpeg} THEN <<"a">> ELSE <<"b">>

Transcoding == prog \in {"convert", "compress"}

InScope(e) == e.kind = "file" /\ Name(e.path) \in JpegNamed

OutOfScope(e) == e.kind = "file" /\ Name(e.path) \notin JpegNamed

Rel(e) == RelativeTo(e.path, INPUT_DIR)

\* relative paths of the directories / files below an output root
DirsUnder(root) == {RelativeTo(d, root) : d \in {x \in dirs : IsPrefix(root, x) /\ x # root}}

FilesUnder(root) == {RelativeTo(f, root) : f \in {x \in files : IsPrefix(root, x)}}

InputDirs == {Rel(e) : e \in {x \in tree : x.kind = "dir"}}

\* the output root of the run did not exist when the run started
FreshRoot == (output_path \o <<nOld>>) \notin dirs

FirstRootFresh == (OutputRoot(prog, 1) \o <<nOld>>) \notin dirs

CodecKinds == {"detected", "saved", "unidentified", "failed", "compressed"}

Outcomes == {"skip", "saved", "unidentified", "failed", "compressed"}

Visited(e) == e \notin pending /\ e # cur /\ pc \in {"loop", "codec", "done"}

\* C1: fault isolation.  In a run of either transcoder over an input
\* directory, whatever the in-scope files hold, the run never aborts; the loop
\* body starts once for every entry it has taken from the walk (the iterations
\* and the entries still pending add up to the tree), every visited file has
\* exactly one outcome in the log, and when the run is done no entry is left
\* and every in-scope file holding a decodable image has its output file.
C1_FaultIsolation ==
  (Transcoding /\ inputKind = "dir") =>
    /\ pc # "aborted"
    /\ pc \in {"loop", "codec", "done"} =>
         /\ pending \subseteq tree
         /\ iterations + Cardinality(pending) = Cardinality(tree)
         /\ \A e \in tree :
              (e.kind = "file" /\ Visited(e)) =>
                Cardinality({r \in log : r.path = e.path /\ r.kind \in Outcomes}) = 1
    /\ pc = "done" =>
         /\ pending = {}
         /\ \A e \in tree :
              (InScope(e) /\ e.content = "jpeg") =>
                (output_path \o Rel(e)) \in files

\* a finished run with a file that failed and a file that was written
C1_Witness ==
  /\ Transcoding /\ pc = "done"
  /\ \E r \in log : r.level = "error"
  /\ \E e \in tree : InScope(e) /\ e.content = "jpeg" /\ (output_path \o Rel(e)) \in files
  /\ \E e \in tree : e.content = "truncated"

DirsHoldingFiles ==
  {d \in InputDirs : \E e \in tree : e.kind = "file" /\ IsPrefix(d, Parent(Rel(e)))}

C3_BadInputRootAborts ==
  (Transcoding /\ inputKind # "dir") =>
    /\ pc \notin {"loop", "codec", "done"}
    /\ files = {}
    /\ output_path \in dirs => ~FirstRootFresh

\* C4: after a run, every in-scope file that holds a decodable image has
\* its output file at the same relative path under the output root, two
\* in-scope files never share an output path, and every file under the output
\* root is at the relative path of an in-scope source file.
C4_OneOutputPerSource ==
  (Transcoding /\ pc = "done") =>
    /\ \A e \in tree :
         (InScope(e) /\ e.content = "jpeg") =>
           Cardinality({f \in files : IsPrefix(output_path, f)
                                       /\ RelativeTo(f, output_path) = Rel(e)}) = 1
    /\ \A e1, e2 \in tree :
         (InScope(e1) /\ InScope(e2) /\ e1 # e2) => OutputFile(e1) # OutputFile(e2)
    /\ \A r \in FilesUnder(output_path) : \E e \in tree : InScope(e) /\ Rel(e) = r

\* a finished run that wrote two files with the same name in two directories
C4_Witness ==
  /\ Transcoding /\ pc = "done"
  /\ Cardinality(FilesUnder(output_path)) = 2
  /\ \E e \in tree : InScope(e) /\ Len(Rel(e)) > 1 /\ Rel(e) \in FilesUnder(output_path)

\* C5: a file whose extension is not .jpg/.jpeg is never given to the codec,
\* gets no output file under any output root, and once visited has a "skip"
\* record in the log and no record of level error.
C5_OutOfScopeSkipped ==
  Transcoding =>
    \A e \in tree :
      OutOfScope(e) =>
        /\ cur # e
        /\ ~\E r \in log : r.path = e.path /\ r.kind \in CodecKinds
        /\ ~\E r \in log : r.path = e.path /\ r.level = "error"
        /\ Rel(e) \notin FilesUnder(OUTPUT_DIR) \cup FilesUnder(OUTPUT_DIR_2)
                           \cup FilesUnder(CompressedDir)
        /\ Visited(e) => \E r \in log : r.path = e.path /\ r.kind = "skip"

\* a finished run that skipped one file and failed on another
C5_Witness ==
  /\ Transcoding /\ pc = "done"
  /\ \E e \in tree : OutOfScope(e) /\ \E r \in log : r.path = e.path /\ r.kind = "skip"
  /\ \E r \in log : r.level = "error"

\* the regular files named like a JPEG in the audited tree
AuditedFiles == {e.path : e \in {x \in tree : InScope(x)}}

Occurrences(base) == {f \in AuditedFiles : BaseName(Name(f)) = base}

DuplicatedBases ==
  {b \in {BaseName(Name(f)) : f \in AuditedFiles} : Cardinality(Occurrences(b)) > 1}

\* position in the walk of the first file with that base name
FirstMet(base) ==
  CHOOSE i \in 1..Len(jpeg_files) :
    /\ BaseName(Name(jpeg_files[i])) = base
    /\ \A j \in 1..(i - 1) : BaseName(Name(jpeg_files[j])) # base

\* C6: the audit reports exactly the base names shared by more than one
\* regular .jpg/.jpeg file, each once, with a count equal to the length of its
\* path list, which holds each of its files once; the rows are in descending
\* count, rows of equal count in the order in which the walk first met their
\* names; the totals count every such file, every base name and every
\* duplicated base name.
C6_DuplicateReport ==
  (prog = "count" /\ pc = "done") =>
    LET D == report.duplicates
    IN /\ {D[k].name : k \in 1..Len(D)} = DuplicatedBases
       /\ Len(D) = Cardinality(DuplicatedBases)
       /\ \A k \in 1..Len(D) :
            /\ D[k].count = Len(D[k].paths)
            /\ D[k].count = Cardinality(Occurrences(D[k].name))
            /\ {D[k].paths[i] : i \in 1..Len(D[k].paths)} = Occurrences(D[k].name)
       /\ \A i, j \in 1..Len(D) :
            i < j =>
              \/ D[i].count > D[j].count
              \/ D[i].count = D[j].count /\ FirstMet(D[i].name) < FirstMet(D[j].name)
       /\ report.total = Cardinality(AuditedFiles)
       /\ report.unique = Cardinality({BaseName(Name(f)) : f \in AuditedFiles})
       /\ report.duplicated = Cardinality(DuplicatedBases)

\* an audit whose walk met the name shared by two files before the name shared
\* by three, and a name carried by no second file
C6_Witness ==
  /\ prog = "count" /\ pc = "done"
  /\ Len(report.duplicates) = 2
  /\ report.duplicates[1].count = 3
  /\ report.duplicates[2].count = 2
  /\ BaseName(Name(jpeg_files[1])) = report.duplicates[2].name
  /\ \E e \in tree : OutOfScope(e)

\* C7 (as stated): whenever a transcoder is about to take the next entry from
\* the walk, no source image handle is open.
C7_HandlesReleased ==
  (Transcoding /\ pc = "loop" /\ pending # {}) => handles = {}

\* relative paths, directories and files apart, below an output root
Structure(root) == [d |-> DirsUnder(root), f |-> FilesUnder(root)]

\* C8: two conversions of the same input into two fresh output roots leave
\* the same relative paths, directories and files, under both.
C8_SameStructure ==
  (prog = "convert" /\ run = 2 /\ pc = "done" /\ FirstRootFresh) =>
    Structure(OUTPUT_DIR) = Structure(OUTPUT_DIR_2)

\* two finished conversions of a tree with a nested file that was written, a
\* file that failed and a directory
C8_Witness ==
  /\ prog = "convert" /\ run = 2 /\ pc = "done" /\ FirstRootFresh
  /\ \E r \in FilesUnder(OUTPUT_DIR_2) : Len(r) > 1
  /\ \E e \in tree : InScope(e) /\ Rel(e) \notin FilesUnder(OUTPUT_DIR_2)
  /\ <<nXjpg>> \in DirsUnder(OUTPUT_DIR_2)

\* C9: when the codec is about to be called for an entry, the directory of
\* its output file and every ancestor of it exist, whatever the walk's order.
C9_ParentBeforeWrite ==
  (Transcoding /\ pc = "codec") =>
    \A k \in 0..Len(Rel(cur)) - 1 :
      (output_path \o SubSeq(Rel(cur), 1, k)) \in dirs

\* the codec about to be called for a file two directories down before the
\* walk has reached either directory
C9_Witness ==
  /\ Transcoding /\ pc = "codec"
  /\ Len(Rel(cur)) = 3
  /\ \E e \in pending : e.kind = "dir" /\ Rel(e) = <<nD>>
  /\ \E e \in pending : e.kind = "dir" /\ Rel(e) = <<nD, nE>>

\* the output side is as it was when the command started
Untouched ==
  /\ files = {}
  /\ dirs \in {{NoPath}, Mkdir({NoPath}, CompressedDir \o <<nOld>>)}

\* C10: the compression command changes nothing on the output side and does
\* not enter compress_jpeg unless the input path exists, the output directory
\* did not exist and the answer to the prompt was y or Y; the prompt is only
\* reached when the first two hold.
C10_ThreeGates ==
  prog = "compress" =>
    /\ prompted => (inputKind # "missing" /\ FirstRootFresh)
    /\ (pc \in {"compress", "loop", "codec", "done"} \/ ~Untouched) =>
         /\ inputKind # "missing"
         /\ FirstRootFresh
         /\ prompted
         /\ answer \in {<<"y">>, <<"Y">>}
    /\ pc \in {"start", "checkOutput", "confirm", "returned"} => Untouched

\* a compression that ran after the answer Y and wrote a file
C10_Witness ==
  /\ prog = "compress" /\ pc = "done"
  /\ answer = <<"Y">>
  /\ files # {}

====
